---- MODULE Spec2Model ----
(***************************************************************************)
(* A model of the backtesting harness: the three strategies                *)
(* (strategies/sma_cross.py, rsi_bb.py, vwap_reversion.py), the run        *)
(* orchestrator (core/backtester.py) and the parquet cache of the          *)
(* DataLoader (core/data_loader.py).                                       *)
(*                                                                         *)
(* pandas columns are sequences of numbers.  A number is either NaN or an  *)
(* exact rational; Python floats are modelled by exact rational            *)
(* arithmetic, so rounding is not modelled.  Rationals are kept as a sign, *)
(* a numerator and a denominator, both naturals written as little-endian   *)
(* sequences of limbs in base Base, because the default friction values    *)
(* (1/10000) compound to numbers far beyond 32 bits.                       *)
(***************************************************************************)
EXTENDS Integers, Sequences, FiniteSets, TLC

\* ------------------------------------------------------------------------
\* Natural numbers of any size: little-endian limbs, no high zero limb,
\* zero is <<>>.
\* ------------------------------------------------------------------------
Base == 10000

RECURSIVE NOfInt(_)
NOfInt(n) == IF n = 0 THEN <<>> ELSE <<n % Base>> \o NOfInt(n \div Base)

\* the greatest element of a non-empty set of integers
Greatest(S) == CHOOSE i \in S : \A j \in S : j <= i

\* a without its high zero limbs
NTrimTo(a, nz) == IF nz = {} THEN <<>> ELSE SubSeq(a, 1, Greatest(nz))

NTrim(a) == NTrimTo(a, {i \in 1..Len(a) : a[i] # 0})

\* k zero limbs
NZeros(k) == SubSeq([i \in 1..k |-> 0], 1, k)

\* the carries out of positions lo..hi of the limb sums p, cin being the
\* carry into lo; found by halves
RECURSIVE Carries(_, _, _, _)
CarriesJoin(p, mid, hi, left) == left \o Carries(p, mid + 1, hi, left[Len(left)])

Carries(p, lo, hi, cin) ==
    IF lo = hi THEN <<(p[lo] + cin) \div Base>>
    ELSE CarriesJoin(p, (lo + hi) \div 2, hi, Carries(p, lo, (lo + hi) \div 2, cin))

\* the limbs of p with the carries c brought in, and the last carry on top
Carried(p, c) ==
    SubSeq([i \in 1..Len(p) |-> (p[i] + (IF i = 1 THEN 0 ELSE c[i - 1])) % Base],
           1, Len(p))
        \o (IF c[Len(p)] = 0 THEN <<>> ELSE <<c[Len(p)]>>)

\* the natural whose limb at i is worth p[i], each p[i] an integer
Normalize(p) == IF p = <<>> THEN <<>> ELSE Carried(p, Carries(p, 1, Len(p), 0))

Limb(a, i) == IF i <= Len(a) THEN a[i] ELSE 0

LongerLen(a, b) == IF Len(a) >= Len(b) THEN Len(a) ELSE Len(b)

NAdd(a, b) ==
    Normalize(SubSeq([i \in 1..LongerLen(a, b) |-> Limb(a, i) + Limb(b, i)],
                     1, LongerLen(a, b)))

\* -1, 0, 1 as a < b, a = b, a > b, for a and b of one length that differ
\* at the positions in diff
NCmpAt(a, b, diff) ==
    IF diff = {} THEN 0
    ELSE IF a[Greatest(diff)] > b[Greatest(diff)] THEN 1
    ELSE -1

\* -1, 0, 1 as a < b, a = b, a > b
NCmp(a, b) ==
    IF Len(a) > Len(b) THEN 1
    ELSE IF Len(a) < Len(b) THEN -1
    ELSE NCmpAt(a, b, {i \in 1..Len(a) : a[i] # b[i]})

\* a - b for a >= b
NSub(a, b) ==
    NTrim(Normalize(SubSeq([i \in 1..Len(a) |-> a[i] - Limb(b, i)], 1, Len(a))))

\* a * k for a limb k
NMulLimb(a, k) == Normalize(SubSeq([i \in 1..Len(a) |-> a[i] * k], 1, Len(a)))

\* a * (the limbs lo..hi of b, at their places), summed by halves
RECURSIVE NMulRange(_, _, _, _)
NMulRange(a, b, lo, hi) ==
    IF lo = hi
    THEN (IF b[lo] = 0 THEN <<>> ELSE NZeros(lo - 1) \o NMulLimb(a, b[lo]))
    ELSE NAdd(NMulRange(a, b, lo, (lo + hi) \div 2),
              NMulRange(a, b, (lo + hi) \div 2 + 1, hi))

NMul(a, b) ==
    IF a = <<>> \/ b = <<>> THEN <<>>
    ELSE IF b = <<1>> THEN a
    ELSE IF a = <<1>> THEN b
    ELSE NMulRange(a, b, 1, Len(b))

\* ------------------------------------------------------------------------
\* Numbers: NaN or a rational sg * n / d with d > 0.
\* ------------------------------------------------------------------------
NaN == [k |-> "nan", sg |-> 0, n |-> <<>>, d |-> <<>>]

IsNaN(x) == x.k = "nan"

NotNaN(x) == x.k # "nan"

Zero == [k |-> "num", sg |-> 0, n |-> <<>>, d |-> <<1>>]
One == [k |-> "num", sg |-> 1, n |-> <<1>>, d |-> <<1>>]
MinusOne == [k |-> "num", sg |-> -1, n |-> <<1>>, d |-> <<1>>]

RECURSIVE Gcd(_, _)
Gcd(a, b) ==
    IF b = 0 THEN a
    ELSE IF a % b = 0 THEN b
    ELSE Gcd(a % b, b % (a % b))

NToInt(a) ==
    IF a = <<>> THEN 0
    ELSE IF Len(a) = 1 THEN a[1]
    ELSE a[1] + Base * a[2]

CancelBy(ai, bi, g) == <<NOfInt(ai \div g), NOfInt(bi \div g)>>

CancelInts(ai, bi) == CancelBy(ai, bi, Gcd(ai, bi))

\* the pair <<a / g, b / g>> for a common divisor g of a and b: the greatest
\* one when both are below Base^2, else 1
Cancel(a, b) ==
    IF a = <<>> \/ b = <<>> \/ Len(a) > 2 \/ Len(b) > 2 THEN <<a, b>>
    ELSE CancelInts(NToInt(a), NToInt(b))

\* the number of sign s and parts <<n, d>>
Num(s, parts) == [k |-> "num", sg |-> s, n |-> parts[1], d |-> parts[2]]

\* Lowest terms when both parts are below Base^2, else only the common
\* factors of Base are dropped.
RECURSIVE QNorm(_, _, _)
QNorm(s, n, d) ==
    IF n = <<>> THEN Zero
    ELSE IF Len(n) <= 2 /\ Len(d) <= 2 THEN Num(s, Cancel(n, d))
    ELSE IF Head(n) = 0 /\ Head(d) = 0 THEN QNorm(s, Tail(n), Tail(d))
    ELSE Num(s, <<n, d>>)

\* the rational a / b of two integers, b > 0
Q(a, b) ==
    QNorm(IF a > 0 THEN 1 ELSE IF a < 0 THEN -1 ELSE 0,
          NOfInt(IF a < 0 THEN -a ELSE a), NOfInt(b))

QNeg(x) == IF IsNaN(x) THEN NaN ELSE [x EXCEPT !.sg = -x.sg]

\* sx * a / d + sy * b / d for signs sx, sy # 0, c being NCmp(a, b)
QAddParts(sx, sy, a, b, d, c) ==
    QNorm(IF sx = sy \/ c > 0 THEN sx ELSE sy,
          IF sx = sy THEN NAdd(a, b) ELSE IF c > 0 THEN NSub(a, b) ELSE NSub(b, a),
          d)

QAddOn(sx, sy, a, b, d) == QAddParts(sx, sy, a, b, d, NCmp(a, b))

\* x + y, m being the denominators of x and y over a common divisor
QAddOver(x, y, m) ==
    QAddOn(x.sg, y.sg, NMul(x.n, m[2]), NMul(y.n, m[1]), NMul(x.d, m[2]))

QAdd(x, y) ==
    IF IsNaN(x) \/ IsNaN(y) THEN NaN
    ELSE IF x.sg = 0 THEN y
    ELSE IF y.sg = 0 THEN x
    ELSE QAddOver(x, y, IF x.d = y.d THEN <<<<1>>, <<1>>>> ELSE Cancel(x.d, y.d))

QSub(x, y) == QAdd(x, QNeg(y))

\* the number of sign s and parts p[1] * q[1] over q[2] * p[2]
QMulOver(s, p, q) == QNorm(s, NMul(p[1], q[1]), NMul(q[2], p[2]))

QMul(x, y) ==
    IF IsNaN(x) \/ IsNaN(y) THEN NaN
    ELSE IF x.sg = 0 \/ y.sg = 0 THEN Zero
    ELSE QMulOver(x.sg * y.sg, Cancel(x.n, y.d), Cancel(y.n, x.d))

\* x / y; 0 / 0 is NaN, and no model input divides another number by zero
QDiv(x, y) ==
    IF IsNaN(x) \/ IsNaN(y) \/ y.sg = 0 THEN NaN
    ELSE QMul(x, [k |-> "num", sg |-> y.sg, n |-> y.d, d |-> y.n])

\* x * x
QSquare(x) == QMul(x, x)

\* -1, 0, 1 as x < y, x = y, x > y (neither is NaN)
QCmp(x, y) ==
    IF x.sg # y.sg THEN (IF x.sg < y.sg THEN -1 ELSE 1)
    ELSE IF x.sg = 0 THEN 0
    ELSE x.sg * NCmp(NMul(x.n, y.d), NMul(y.n, x.d))

\* IEEE comparisons: every comparison with NaN is false, except #
QLt(x, y) == NotNaN(x) /\ NotNaN(y) /\ QCmp(x, y) < 0
QGt(x, y) == NotNaN(x) /\ NotNaN(y) /\ QCmp(x, y) > 0
QLe(x, y) == NotNaN(x) /\ NotNaN(y) /\ QCmp(x, y) <= 0
QEq(x, y) == NotNaN(x) /\ NotNaN(y) /\ QCmp(x, y) = 0
QNe(x, y) == IsNaN(x) \/ IsNaN(y) \/ QCmp(x, y) # 0

\* equal as column entries: both NaN, or the same number
Same(x, y) ==
    IF IsNaN(x) \/ IsNaN(y) THEN IsNaN(x) /\ IsNaN(y) ELSE QCmp(x, y) = 0

\* cand * cand <= a
NSquareFits(cand, a) == NCmp(NMul(cand, cand), a) <= 0

\* the limb at pos of floor(sqrt(a)), the higher limbs being those of p
RECURSIVE NSqrtLimb(_, _, _, _, _)
NSqrtLimb(a, p, pos, lo, hi) ==
    IF lo = hi THEN lo
    ELSE IF NSquareFits(NTrim([p EXCEPT ![pos] = (lo + hi + 1) \div 2]), a)
    THEN NSqrtLimb(a, p, pos, (lo + hi + 1) \div 2, hi)
    ELSE NSqrtLimb(a, p, pos, lo, (lo + hi + 1) \div 2 - 1)

RECURSIVE NSqrtFrom(_, _, _)
NSqrtFrom(a, p, pos) ==
    IF pos = 0 THEN NTrim(p)
    ELSE NSqrtFrom(a, [p EXCEPT ![pos] = NSqrtLimb(a, p, pos, 0, Base - 1)], pos - 1)

\* floor(sqrt(a)), one limb at a time from the highest
NSqrt(a) == NSqrtFrom(a, NZeros((Len(a) + 1) \div 2), (Len(a) + 1) \div 2)

\* x with the low limbs of both parts dropped until one has at most
\* Digits limbs: a rounding to Digits limbs of precision
Digits == 4

\* x without its k low limbs
QDropLimbs(x, k) ==
    [x EXCEPT !.n = SubSeq(x.n, k + 1, Len(x.n)), !.d = SubSeq(x.d, k + 1, Len(x.d))]

QRound(x) ==
    IF Len(x.n) > Digits /\ Len(x.d) > Digits
    THEN QDropLimbs(x, (IF Len(x.n) < Len(x.d) THEN Len(x.n) ELSE Len(x.d)) - Digits)
    ELSE x

\* sqrt(n / d) rounded down to a multiple of 1 / (d * Base)
QSqrtOf(n, d) == QNorm(1, NSqrt(<<0, 0>> \o NMul(n, d)), <<0>> \o d)

QSqrtRounded(r) == QSqrtOf(r.n, r.d)

\* sqrt of a rational x >= 0, rounded down to a multiple of 1/(d * Base)
\* after x is rounded to Digits limbs (Python rounds to 53 bits instead)
QSqrt(x) ==
    IF IsNaN(x) \/ x.sg < 0 THEN NaN
    ELSE IF x.sg = 0 THEN Zero
    ELSE QSqrtRounded(QRound(x))

\* ------------------------------------------------------------------------
\* pandas columns: sequences of numbers, index 1 is the first bar
\* ------------------------------------------------------------------------
\* the column with entries f[1..n], evaluated once
Column(f, n) == SubSeq(f, 1, n)

\* a column of integers as numbers
OfInts(c) == Column([i \in 1..Len(c) |-> Q(c[i], 1)], Len(c))

\* a column of n entries x
Fill(x, n) == Column([i \in 1..n |-> x], n)

\* Series.shift(k), k >= 0
Shift(c, k) == Column([i \in 1..Len(c) |-> IF i <= k THEN NaN ELSE c[i - k]], Len(c))

\* Series.diff()
Diff(c) == Column([i \in 1..Len(c) |-> IF i = 1 THEN NaN ELSE QSub(c[i], c[i - 1])], Len(c))

\* one step of a running value over a column: NaN entries are skipped
Accumulate(how, acc, x) ==
    IF IsNaN(x) THEN acc
    ELSE IF how = "last" THEN x
    ELSE IF how = "sum" THEN QAdd(acc, x)
    ELSE IF how = "prod" THEN QMul(acc, x)
    ELSE IF IsNaN(acc) \/ QGt(x, acc) THEN x
    ELSE acc

\* the running values r[i] = Accumulate(how, r[i - 1], c[i]) for i in lo..hi,
\* acc being r[lo - 1]; found by halves
RECURSIVE Scan(_, _, _, _, _)
ScanJoin(how, c, mid, hi, left) ==
    left \o Scan(how, c, mid + 1, hi, left[Len(left)])

Scan(how, c, lo, hi, acc) ==
    IF lo > hi THEN <<>>
    ELSE IF lo = hi THEN <<Accumulate(how, acc, c[lo])>>
    ELSE ScanJoin(how, c, (lo + hi) \div 2, hi, Scan(how, c, lo, (lo + hi) \div 2, acc))

\* the running values with NaN where the column c has NaN
MaskNa(c, r) == Column([i \in 1..Len(c) |-> IF IsNaN(c[i]) THEN NaN ELSE r[i]], Len(c))

\* Series.ffill(): a NaN takes the last value before it
FFill(c) == Scan("last", c, 1, Len(c), NaN)

\* x[t] / x[t-1] - 1 on a column without gaps
Change(f) ==
    Column([i \in 1..Len(f) |->
               IF i = 1 THEN NaN ELSE QSub(QDiv(f[i], f[i - 1]), One)], Len(f))

\* Series.pct_change(): the column is forward-filled, then x[t] / x[t-1] - 1
PctChange(c) == Change(FFill(c))

\* Series.fillna(v)
FillNa(c, v) == Column([i \in 1..Len(c) |-> IF IsNaN(c[i]) THEN v ELSE c[i]], Len(c))

\* c[lo] + ... + c[hi], summed by halves
RECURSIVE SumRange(_, _, _)
SumRange(c, lo, hi) ==
    IF lo > hi THEN Zero
    ELSE IF lo = hi THEN c[lo]
    ELSE QAdd(SumRange(c, lo, (lo + hi) \div 2), SumRange(c, (lo + hi) \div 2 + 1, hi))

\* the mean of c[lo..hi], NaN when an entry is
MeanRange(c, lo, hi) == QDiv(SumRange(c, lo, hi), Q(hi - lo + 1, 1))

\* Series.rolling(w).mean(): NaN until the window is full
RollingMean(c, w) ==
    Column([i \in 1..Len(c) |->
               IF i < w \/ w < 1 THEN NaN ELSE MeanRange(c, i - w + 1, i)], Len(c))

\* (c[lo] - m)^2 + ... + (c[hi] - m)^2
SumSqDev(c, lo, hi, m) ==
    SumRange(Column([i \in 1..hi |->
                        IF i < lo THEN Zero ELSE QSquare(QSub(c[i], m))], hi), lo, hi)

\* the variance of c[lo..hi] about its mean m, ddof the delta degrees of
\* freedom; NaN when an entry is
VarAbout(c, lo, hi, m, ddof) ==
    IF IsNaN(m) THEN NaN
    ELSE QDiv(SumSqDev(c, lo, hi, m), Q(hi - lo + 1 - ddof, 1))

VarRange(c, lo, hi, ddof) == VarAbout(c, lo, hi, MeanRange(c, lo, hi), ddof)

\* Series.rolling(w).var(): the sample variance (ddof = 1) of a full
\* window, NaN for a window of one
RollingVar(c, w) ==
    Column([i \in 1..Len(c) |->
               IF i < w \/ w < 2 THEN NaN ELSE VarRange(c, i - w + 1, i, 1)], Len(c))

\* the square roots of a column
ColSqrt(v) == Column([i \in 1..Len(v) |-> QSqrt(v[i])], Len(v))

\* Series.rolling(w).std(): the square root of the variance
RollingStd(c, w) == ColSqrt(RollingVar(c, w))

\* for sa the sign of a, sb that of b and c the order of a^2 and b^2 * v
GtBySquares(sa, sb, c) ==
    IF sb >= 0 THEN sa > 0 /\ c > 0 ELSE sa >= 0 \/ c < 0

\* a > b * sqrt(v) for v >= 0, decided exactly on the squares; false when
\* one of them is NaN
GtTimesSqrt(a, b, v) ==
    IF IsNaN(a) \/ IsNaN(b) \/ IsNaN(v) THEN FALSE
    ELSE GtBySquares(a.sg, b.sg, QCmp(QSquare(a), QMul(QSquare(b), v)))

\* Series.cumsum(): a NaN entry is skipped, its place in the result is NaN
CumSum(c) == MaskNa(c, Scan("sum", c, 1, Len(c), Zero))

\* Series.cumprod(): a NaN entry is skipped, its place in the result is NaN
CumProd(c) == MaskNa(c, Scan("prod", c, 1, Len(c), One))

\* the entries of a column that are not NaN
DropNa(c) == SelectSeq(c, NotNaN)

\* the mean of a column without NaN, NaN when it is empty
MeanOf(v) == IF v = <<>> THEN NaN ELSE MeanRange(v, 1, Len(v))

\* Series.mean(): NaN entries are skipped, NaN when nothing is left
Mean(c) == MeanOf(DropNa(c))

Lesser(x, y) == IF QLt(y, x) THEN y ELSE x

\* the least of v[lo..hi], found by halves
RECURSIVE MinRange(_, _, _)
MinRange(v, lo, hi) ==
    IF lo = hi THEN v[lo]
    ELSE Lesser(MinRange(v, lo, (lo + hi) \div 2), MinRange(v, (lo + hi) \div 2 + 1, hi))

MinOf(v) == IF v = <<>> THEN NaN ELSE MinRange(v, 1, Len(v))

\* Series.min(): NaN entries are skipped, NaN when nothing is left
Min(c) == MinOf(DropNa(c))

\* Series.cummax(): the running maximum, NaN entries are skipped
CumMax(c) == MaskNa(c, Scan("max", c, 1, Len(c), NaN))

\* elementwise a op b on two columns of one length
ColSub(a, b) == Column([i \in 1..Len(a) |-> QSub(a[i], b[i])], Len(a))
ColMul(a, b) == Column([i \in 1..Len(a) |-> QMul(a[i], b[i])], Len(a))
ColDiv(a, b) == Column([i \in 1..Len(a) |-> QDiv(a[i], b[i])], Len(a))
ColNeg(a) == Column([i \in 1..Len(a) |-> QNeg(a[i])], Len(a))
\* a scalar with a column
ScalarAdd(x, a) == Column([i \in 1..Len(a) |-> QAdd(x, a[i])], Len(a))
ScalarMul(x, a) == Column([i \in 1..Len(a) |-> QMul(x, a[i])], Len(a))

ColDivScalar(a, x) == Column([i \in 1..Len(a) |-> QDiv(a[i], x)], Len(a))

\* Series.where(cond, 0.0) for cond the entries above, or below, zero
WherePositive(c) ==
    Column([i \in 1..Len(c) |-> IF QGt(c[i], Zero) THEN c[i] ELSE Zero], Len(c))
WhereNegative(c) ==
    Column([i \in 1..Len(c) |-> IF QLt(c[i], Zero) THEN c[i] ELSE Zero], Len(c))

\* Series.sum(): NaN entries are skipped
SumOf(v) == SumRange(v, 1, Len(v))

Sum(c) == SumOf(DropNa(c))

\* np.std(series): the population deviation (ddof = 0), NaN entries skipped
StdOf(v) == IF v = <<>> THEN NaN ELSE QSqrt(VarRange(v, 1, Len(v), 0))

StdPop(c) == StdOf(DropNa(c))

\* ------------------------------------------------------------------------
\* Bar series (pandas DataFrames of OHLCV bars)
\* ------------------------------------------------------------------------
\* pd.DataFrame(): no columns, no rows
EmptyFrame == [cols |-> FALSE, tskind |-> "none", rows |-> <<>>]

\* a frame with the six OHLCV columns; tskind is the type of its timestamp
\* column, "datetime" or "string"
Frame(tskind, rows) == [cols |-> TRUE, tskind |-> tskind, rows |-> rows]

Bar(ts, close, volume) ==
    [timestamp |-> ts, open |-> close, high |-> close + 1, low |-> close,
     close |-> close, volume |-> volume]

CloseOf(frame) == OfInts([i \in 1..Len(frame.rows) |-> frame.rows[i].close])
VolumeOf(frame) == OfInts([i \in 1..Len(frame.rows) |-> frame.rows[i].volume])

\* self.price_data.copy(), as the columns the strategies compute with
Copy(frame) == [close |-> CloseOf(frame), volume |-> VolumeOf(frame)]

\* data[col] = value
With(data, col, value) == (col :> value) @@ data

\* data without the columns in cols
Without(data, cols) == [c \in DOMAIN data \ cols |-> data[c]]

\* what a method call gives back: the DataFrame or dict it returns, or the
\* exception it raises
Returns(data) == [raised |-> "no", data |-> data]
Raises(exc) == [raised |-> exc, data |-> <<>>]

\* data[col].iloc[-1] inside a log line: the call raises on a frame of no rows
Logged(data, col) ==
    IF data[col] = <<>> THEN Raises("IndexError") ELSE Returns(data)

\* ------------------------------------------------------------------------
\* SmaCrossoverStrategy
\* ------------------------------------------------------------------------
SmaInitialBalance == Q(10000, 1)

\* data["SMA_Short"] = data["close"].rolling(window=self.short_window).mean()
SmaShort(data, st) == With(data, "SMA_Short", RollingMean(data.close, st.short_window))

\* data["SMA_Long"] = data["close"].rolling(window=self.long_window).mean()
SmaLong(data, st) == With(data, "SMA_Long", RollingMean(data.close, st.long_window))

\* data["signal"] = np.where(data["SMA_Short"] > data["SMA_Long"], 1, 0)
SmaAbove(data) ==
    With(data, "signal",
         Column([i \in 1..Len(data.close) |->
                    IF QGt(data.SMA_Short[i], data.SMA_Long[i]) THEN One ELSE Zero],
                Len(data.close)))

\* data["signal"] = data["signal"].diff()
SmaCrossing(data) == With(data, "signal", Diff(data.signal))

SmaGenerateSignals(st) ==
    IF ~st.price_data.cols THEN Raises("KeyError")
    ELSE Returns(SmaCrossing(SmaAbove(SmaLong(SmaShort(Copy(st.price_data), st), st))))

\* data["strategy_return"] = data["signal"].shift() * data["close"].pct_change()
SmaStrategyReturn(data) ==
    With(data, "strategy_return", ColMul(Shift(data.signal, 1), PctChange(data.close)))

\* data["balance"] = initial_balance * (1 + data["strategy_return"]).cumprod()
SmaBalance(data, initial_balance) ==
    With(data, "balance",
         ScalarMul(initial_balance, CumProd(ScalarAdd(One, data.strategy_return))))

\* run_backtest after data = self.generate_signals() gave g
SmaBacktestOn(g, initial_balance) ==
    IF g.raised # "no" THEN g
    ELSE Logged(SmaBalance(SmaStrategyReturn(g.data), initial_balance), "balance")

SmaRunBacktest(st, initial_balance) ==
    SmaBacktestOn(SmaGenerateSignals(st), initial_balance)

SmaMetricsOf(balance) ==
    Returns([total_return |-> QSub(balance[Len(balance)], balance[1]),
             final_balance |-> balance[Len(balance)]])

\* get_metrics after backtest = self.run_backtest() gave b
SmaMetricsOn(b) == IF b.raised # "no" THEN b ELSE SmaMetricsOf(b.data.balance)

SmaGetMetrics(st) == SmaMetricsOn(SmaRunBacktest(st, SmaInitialBalance))

\* ------------------------------------------------------------------------
\* RsiBollingerStrategy
\* ------------------------------------------------------------------------
RsiInitialBalance == Q(10000, 1)
RsiTransactionCost == Q(1, 10000)
RsiSlippagePercent == Q(1, 10000)
RsiExecutionLag == 1
RsiEpsilon == Q(1, 1000000000)

\* delta = data["close"].diff()
RsiDelta(data) == With(data, "delta", Diff(data.close))

\* gain = delta.where(delta > 0, 0.0).rolling(self.rsi_period).mean()
RsiGain(data, st) ==
    With(data, "gain", RollingMean(WherePositive(data.delta), st.rsi_period))

\* loss = -delta.where(delta < 0, 0.0).rolling(self.rsi_period).mean()
RsiLoss(data, st) ==
    With(data, "loss", ColNeg(RollingMean(WhereNegative(data.delta), st.rsi_period)))

\* rs = gain / (loss + 1e-9)
RsiRs(data) == With(data, "rs", ColDiv(data.gain, ScalarAdd(RsiEpsilon, data.loss)))

\* data["RSI"] = 100 - (100 / (1.0 + rs))
RsiRsi(data) ==
    With(data, "RSI",
         Column([i \in 1..Len(data.close) |->
                    QSub(Q(100, 1), QDiv(Q(100, 1), QAdd(One, data.rs[i])))],
                Len(data.close)))

\* data["BB_Mid"] = data["close"].rolling(window=self.bb_period).mean()
RsiBbMid(data, st) == With(data, "BB_Mid", RollingMean(data.close, st.bb_period))

\* BB_Upper = BB_Mid + 2 * std and BB_Lower = BB_Mid - 2 * std are kept as
\* the variance std^2 the bands are compared through
RsiBbVar(data, st) == With(data, "BB_Var", RollingVar(data.close, st.bb_period))

\* data["close"] > data["BB_Upper"] at bar i
AboveUpperBand(data, i) ==
    GtTimesSqrt(QSub(data.close[i], data.BB_Mid[i]), Q(2, 1), data.BB_Var[i])

\* data["close"] < data["BB_Lower"] at bar i
BelowLowerBand(data, i) ==
    GtTimesSqrt(QSub(data.BB_Mid[i], data.close[i]), Q(2, 1), data.BB_Var[i])

\* data["signal"] = 0, then 1 where RSI < 40 below the lower band, then -1
\* where RSI > 60 above the upper band
RsiSignal(data) ==
    With(data, "signal",
         Column([i \in 1..Len(data.close) |->
                    IF QGt(data.RSI[i], Q(60, 1)) /\ AboveUpperBand(data, i)
                    THEN MinusOne
                    ELSE IF QLt(data.RSI[i], Q(40, 1)) /\ BelowLowerBand(data, i)
                    THEN One
                    ELSE Zero],
                Len(data.close)))

\* the local variables of generate_signals, which are no columns of data
RsiLocals == {"delta", "gain", "loss", "rs"}

RsiGenerateSignals(st) ==
    IF ~st.price_data.cols THEN Raises("KeyError")
    ELSE Returns(Without(
             RsiSignal(RsiBbVar(RsiBbMid(RsiRsi(RsiRs(RsiLoss(RsiGain(
                 RsiDelta(Copy(st.price_data)), st), st))), st), st)),
             RsiLocals))

\* Faulty variants of the two cost steps below, which the cost properties
\* must tell from them: a charge on every change of the signal, and a cost
\* that is added to the return
RsiTradeMaskOnChange(signal) ==
    Column([i \in 1..Len(signal) |->
               IF i = 1 THEN QNe(signal[i], Zero) ELSE ~Same(signal[i], signal[i - 1])],
           Len(signal))

RsiRefundCost(r, trade_mask, transaction_cost) ==
    Column([i \in 1..Len(r) |->
               IF trade_mask[i] THEN QAdd(r[i], transaction_cost) ELSE r[i]], Len(r))

\* trade_mask = data["signal"] != 0: true for a NaN signal too
RsiTradeMask(signal) ==
    Column([i \in 1..Len(signal) |-> QNe(signal[i], Zero)], Len(signal))

\* data.loc[trade_mask, "return_with_slippage"] -= transaction_cost
RsiChargeCost(r, trade_mask, transaction_cost) ==
    Column([i \in 1..Len(r) |->
               IF trade_mask[i] THEN QSub(r[i], transaction_cost) ELSE r[i]], Len(r))

\* data["signal"] = data["signal"].shift(execution_lag)
RsiLagged(data, execution_lag) ==
    With(data, "signal",
         IF execution_lag = 0 THEN data.signal ELSE Shift(data.signal, execution_lag))

\* data["price_with_slippage"] = data["close"] * (1 + slippage_percent * data["signal"])
RsiPrice(data, slippage_percent) ==
    With(data, "price_with_slippage",
         ColMul(data.close, ScalarAdd(One, ScalarMul(slippage_percent, data.signal))))

\* the return of the position of the bar itself, not of the bar before
RsiReturnOfCurrentBar(data) ==
    With(data, "return_with_slippage",
         ColMul(data.signal, PctChange(data.price_with_slippage)))

\* data["return_with_slippage"] =
\*     data["signal"].shift() * data["price_with_slippage"].pct_change()
RsiReturn(data) ==
    With(data, "return_with_slippage",
         ColMul(Shift(data.signal, 1), PctChange(data.price_with_slippage)))

RsiCharged(data, transaction_cost) ==
    With(data, "return_with_slippage",
         RsiChargeCost(data.return_with_slippage, RsiTradeMask(data.signal),
                       transaction_cost))

\* data["balance"] =
\*     initial_balance * (1 + data["return_with_slippage"].fillna(0)).cumprod()
RsiBalance(data, initial_balance) ==
    With(data, "balance",
         ScalarMul(initial_balance,
                   CumProd(ScalarAdd(One, FillNa(data.return_with_slippage, Zero)))))

\* run_backtest on the frame data that generate_signals returned
RsiBacktestOf(data, initial_balance, transaction_cost, slippage_percent, execution_lag) ==
    IF QEq(Sum(data.signal), Zero)
    THEN Returns(With(data, "balance", Fill(initial_balance, Len(data.close))))
    ELSE Logged(RsiBalance(RsiCharged(RsiReturn(RsiPrice(
                    RsiLagged(data, execution_lag), slippage_percent)),
                    transaction_cost), initial_balance),
                "balance")

\* run_backtest after data = self.generate_signals() gave g
RsiBacktestOn(g, initial_balance, transaction_cost, slippage_percent, execution_lag) ==
    IF g.raised # "no" THEN g
    ELSE RsiBacktestOf(g.data, initial_balance, transaction_cost, slippage_percent,
                       execution_lag)

RsiRunBacktest(st, initial_balance, transaction_cost, slippage_percent, execution_lag) ==
    RsiBacktestOn(RsiGenerateSignals(st), initial_balance, transaction_cost,
                  slippage_percent, execution_lag)

\* total_return for initial_balance and final_balance the ends of balance
RsiTotalReturn(initial_balance, final_balance) ==
    IF QEq(initial_balance, Zero) \/ QEq(final_balance, Zero) THEN Zero
    ELSE QSub(QDiv(final_balance, initial_balance), One)

RsiMetricsOf(balance) ==
    IF balance = <<>> THEN Raises("IndexError")
    ELSE Returns([total_return |-> RsiTotalReturn(balance[1], balance[Len(balance)]),
                  final_balance |-> balance[Len(balance)]])

\* get_metrics after backtest_result = self.run_backtest() gave b
RsiMetricsOn(b) == IF b.raised # "no" THEN b ELSE RsiMetricsOf(b.data.balance)

RsiGetMetrics(st) ==
    RsiMetricsOn(RsiRunBacktest(st, RsiInitialBalance, RsiTransactionCost,
                                RsiSlippagePercent, RsiExecutionLag))

\* ------------------------------------------------------------------------
\* VWAPReversionStrategy
\* ------------------------------------------------------------------------
VwapInitialBalance == Q(10000, 1)
VwapTransactionCost == Q(1, 1000)
VwapVolatilityWindow == 14
TradingPeriods == 252

\* data["tpv"] = data["close"] * data["volume"]
VwapTpv(data) == With(data, "tpv", ColMul(data.close, data.volume))

\* data["cum_tpv"] = data["tpv"].cumsum()
VwapCumTpv(data) == With(data, "cum_tpv", CumSum(data.tpv))

\* data["cum_volume"] = data["volume"].cumsum()
VwapCumVolume(data) == With(data, "cum_volume", CumSum(data.volume))

\* data["vwap"] = data["cum_tpv"] / data["cum_volume"]
VwapVwap(data) == With(data, "vwap", ColDiv(data.cum_tpv, data.cum_volume))

VwapCalculateVwap(frame) == VwapVwap(VwapCumVolume(VwapCumTpv(VwapTpv(Copy(frame)))))

\* data["deviation"] = (data["close"] - data["vwap"]) / data["vwap"]
VwapDeviation(data) ==
    With(data, "deviation", ColDiv(ColSub(data.close, data.vwap), data.vwap))

\* data["volatility"] = data["close"].rolling(window=14).std()
VwapVolatility(data) ==
    With(data, "volatility", RollingStd(data.close, VwapVolatilityWindow))

\* data["dynamic_threshold"] =
\*     self.threshold * (data["volatility"] / data["volatility"].mean())
VwapThreshold(data, st) ==
    With(data, "dynamic_threshold",
         ScalarMul(st.threshold, ColDivScalar(data.volatility, Mean(data.volatility))))

\* data["signal"] = 0, then 1 where the deviation is below the negated
\* threshold, then -1 where it is above the threshold
VwapSignal(data) ==
    With(data, "signal",
         Column([i \in 1..Len(data.close) |->
                    IF QGt(data.deviation[i], data.dynamic_threshold[i]) THEN MinusOne
                    ELSE IF QLt(data.deviation[i], QNeg(data.dynamic_threshold[i]))
                    THEN One
                    ELSE Zero],
                Len(data.close)))

\* data["signal"] = data["signal"].shift()
VwapShifted(data) == With(data, "signal", Shift(data.signal, 1))

VwapGenerateSignals(st) ==
    IF ~st.price_data.cols THEN Raises("KeyError")
    ELSE Returns(VwapShifted(VwapSignal(VwapThreshold(VwapVolatility(VwapDeviation(
             VwapCalculateVwap(st.price_data))), st))))

\* data["return"] = data["close"].pct_change()
VwapReturn(data) == With(data, "return", PctChange(data.close))

\* data["strategy_return"] = data["signal"] * data["return"]
VwapStrategyReturn(data) ==
    With(data, "strategy_return", ColMul(data.signal, data.return))

\* trade_mask = data["signal"] != 0, true for a NaN signal too;
\* data.loc[trade_mask, "strategy_return"] -= transaction_cost
VwapCharged(data, transaction_cost) ==
    With(data, "strategy_return",
         Column([i \in 1..Len(data.close) |->
                    IF QNe(data.signal[i], Zero)
                    THEN QSub(data.strategy_return[i], transaction_cost)
                    ELSE data.strategy_return[i]],
                Len(data.close)))

\* data["balance"] = initial_balance * (1 + data["strategy_return"]).cumprod()
VwapBalance(data, initial_balance) ==
    With(data, "balance",
         ScalarMul(initial_balance, CumProd(ScalarAdd(One, data.strategy_return))))

\* run_backtest after data = self.generate_signals() gave g
VwapBacktestOn(g, initial_balance, transaction_cost) ==
    IF g.raised # "no" THEN g
    ELSE Logged(VwapBalance(VwapCharged(VwapStrategyReturn(VwapReturn(g.data)),
                                        transaction_cost), initial_balance),
                "balance")

VwapRunBacktest(st, initial_balance, transaction_cost) ==
    VwapBacktestOn(VwapGenerateSignals(st), initial_balance, transaction_cost)

\* sharpe_ratio for std the deviation of the strategy returns sr
VwapSharpe(sr, std) ==
    IF QGt(std, Zero)
    THEN QMul(QDiv(Mean(sr), std), QSqrt(Q(TradingPeriods, 1)))
    ELSE Zero

VwapMetricsOf(balance, sr) ==
    Returns([total_return |-> QSub(QDiv(balance[Len(balance)], balance[1]), One),
             sharpe_ratio |-> VwapSharpe(sr, StdPop(sr)),
             max_drawdown |-> Min(ScalarAdd(MinusOne, ColDiv(balance, CumMax(balance)))),
             final_balance |-> balance[Len(balance)]])

\* get_metrics after backtest = self.run_backtest() gave b
VwapMetricsOn(b) ==
    IF b.raised # "no" THEN b ELSE VwapMetricsOf(b.data.balance, b.data.strategy_return)

VwapGetMetrics(st) ==
    VwapMetricsOn(VwapRunBacktest(st, VwapInitialBalance, VwapTransactionCost))

\* ------------------------------------------------------------------------
\* The strategies a caller builds, and the calls it makes on one
\* ------------------------------------------------------------------------
\* friction and balance arguments a caller passes to run_backtest
MaxLag == 2
MaxTail == 3
Prices == {5000, 9999, 25000}
InitialBalances == {Q(10000, 1), Q(500, 1)}
Costs == {Q(1, 10000), Q(1, 10)}
Slippages == {Q(1, 10000), Q(1, 20)}
Lags == 0..MaxLag

\* the constructor arguments tried for each class, beside price_data
SmaParams == {[cls |-> "SmaCrossoverStrategy", short_window |-> 1, long_window |-> 2]}
RsiParams == {[cls |-> "RsiBollingerStrategy", rsi_period |-> 2, bb_period |-> 6]}
VwapParams == {[cls |-> "VWAPReversionStrategy", threshold |-> Q(1, 50)]}
Params == SmaParams \cup RsiParams \cup VwapParams

\* the longest window of a strategy: its signals start there
Window(p) ==
    IF p.cls = "SmaCrossoverStrategy" THEN p.long_window
    ELSE IF p.cls = "RsiBollingerStrategy" THEN p.bb_period
    ELSE VwapVolatilityWindow

Tails == UNION {[1..n -> Prices] : n \in 0..MaxTail}

\* bar series: a run of w equal closes, then a tail of any closes
Series(w) ==
    {Frame("string",
           [i \in 1..(w + Len(t)) |-> Bar(i, IF i <= w THEN a ELSE t[i - w], 1)]) :
         a \in Prices, t \in Tails}

\* bar series that fall and then rise, or rise and then fall, by more than
\* the Bollinger band after a run of w equal closes: a buy and a sell signal
SwingPrices == {5000, 50000}
Swings(w) ==
    {Frame("string",
           [i \in 1..(w + 2) |-> Bar(i, IF i <= w THEN a ELSE t[i - w], 1)]) :
         a \in Prices, t \in [1..2 -> SwingPrices]}

\* the bar series a strategy of parameters p is run on: the empty frame
\* load_cached_data returns for a missing symbol, short series, and series
\* that fill the strategy's window
FramesFor(p) ==
    {EmptyFrame} \cup Series(0) \cup Series(Window(p) - 1) \cup Swings(Window(p) - 1)

\* strategy, call: a strategy object and the call made on it.
\* files, dfs, last, first_save: the cache directory of a DataLoader, the
\* DataFrame objects its caller holds, the last call on the loader, and for
\* every symbol saved so far the frame of its first save_to_parquet call.
\* strategy_class, results, artifacts, run, ran_with: a Backtester, the files
\* in its output directory, its last run call, and for every record in
\* results the arguments the strategy's run_backtest was called with.
\* request: the call a DataLoader has made on the exchange, and how far it is.
VARIABLES strategy, call, files, dfs, last, first_save,
          strategy_class, results, artifacts, run, ran_with, request

simVars == <<strategy, call>>
cacheVars == <<files, dfs, last, first_save>>
runVars == <<strategy_class, results, artifacts, run, ran_with>>
exchangeVars == <<request>>
vars == <<strategy, call, files, dfs, last, first_save,
          strategy_class, results, artifacts, run, ran_with, request>>

\* call: the method called on the strategy, its arguments, the frame its
\* inner generate_signals() gave (signals), and what the method gave back
NoCall == [op |-> "none", args |-> <<>>, signals |-> Returns(<<>>),
           result |-> Returns(<<>>)]

NoLoaderCall == [op |-> "none", symbol |-> <<>>, df |-> 0, existed |-> FALSE,
                 result |-> EmptyFrame]
NoRun == [pair |-> <<>>, args |-> <<>>, raised |-> "no"]
NoRequest == [op |-> "none"]

\* no strategy object, no loader, no backtester
NoStrategy == strategy = [cls |-> "none"] /\ call = NoCall
NoLoader ==
    /\ files = <<>> /\ dfs = <<>> /\ last = NoLoaderCall /\ first_save = <<>>
    /\ request = NoRequest
NoBacktester ==
    /\ strategy_class = "none" /\ results = <<>> /\ artifacts = <<>>
    /\ run = NoRun /\ ran_with = <<>>

SimInit ==
    /\ \E p \in Params : \E f \in FramesFor(p) :
           strategy = p @@ [price_data |-> f]
    /\ call = NoCall
    /\ NoLoader /\ NoBacktester

IsSma == strategy.cls = "SmaCrossoverStrategy"
IsRsi == strategy.cls = "RsiBollingerStrategy"
IsVwap == strategy.cls = "VWAPReversionStrategy"

GenerateSignalsOf(st) ==
    IF st.cls = "SmaCrossoverStrategy" THEN SmaGenerateSignals(st)
    ELSE IF st.cls = "RsiBollingerStrategy" THEN RsiGenerateSignals(st)
    ELSE VwapGenerateSignals(st)

MetricsOn(st, g) ==
    IF st.cls = "SmaCrossoverStrategy"
    THEN SmaMetricsOn(SmaBacktestOn(g, SmaInitialBalance))
    ELSE IF st.cls = "RsiBollingerStrategy"
    THEN RsiMetricsOn(RsiBacktestOn(g, RsiInitialBalance, RsiTransactionCost,
                                    RsiSlippagePercent, RsiExecutionLag))
    ELSE VwapMetricsOn(VwapBacktestOn(g, VwapInitialBalance, VwapTransactionCost))

\* strategy.generate_signals()
GenerateSignalsGave(g) ==
    call' = [op |-> "generate_signals", args |-> <<>>, signals |-> g, result |-> g]

GenerateSignals ==
    /\ call.op = "none"
    /\ GenerateSignalsGave(GenerateSignalsOf(strategy))
    /\ UNCHANGED <<strategy, cacheVars, runVars, exchangeVars>>

\* SmaCrossoverStrategy.run_backtest(initial_balance)
SmaRunOn(g) ==
    \E ib \in InitialBalances :
        call' = [op |-> "run_backtest", args |-> [initial_balance |-> ib],
                 signals |-> g, result |-> SmaBacktestOn(g, ib)]

SmaRun ==
    /\ call.op = "none" /\ IsSma
    /\ SmaRunOn(SmaGenerateSignals(strategy))
    /\ UNCHANGED <<strategy, cacheVars, runVars, exchangeVars>>

\* RsiBollingerStrategy.run_backtest(initial_balance, transaction_cost,
\* slippage_percent, execution_lag)
RsiRunOn(g) ==
    \E ib \in InitialBalances, c \in Costs, s \in Slippages, l \in Lags :
        call' = [op |-> "run_backtest",
                 args |-> [initial_balance |-> ib, transaction_cost |-> c,
                           slippage_percent |-> s, execution_lag |-> l],
                 signals |-> g, result |-> RsiBacktestOn(g, ib, c, s, l)]

RsiRun ==
    /\ call.op = "none" /\ IsRsi
    /\ RsiRunOn(RsiGenerateSignals(strategy))
    /\ UNCHANGED <<strategy, cacheVars, runVars, exchangeVars>>

\* VWAPReversionStrategy.run_backtest(initial_balance, transaction_cost)
VwapRunOn(g) ==
    \E ib \in InitialBalances, c \in Costs :
        call' = [op |-> "run_backtest",
                 args |-> [initial_balance |-> ib, transaction_cost |-> c],
                 signals |-> g, result |-> VwapBacktestOn(g, ib, c)]

VwapRun ==
    /\ call.op = "none" /\ IsVwap
    /\ VwapRunOn(VwapGenerateSignals(strategy))
    /\ UNCHANGED <<strategy, cacheVars, runVars, exchangeVars>>

\* strategy.get_metrics(): the backtest runs with the defaults of run_backtest
GetMetricsGave(g) ==
    call' = [op |-> "get_metrics", args |-> <<>>, signals |-> g,
             result |-> MetricsOn(strategy, g)]

GetMetrics ==
    /\ call.op = "none"
    /\ GetMetricsGave(GenerateSignalsOf(strategy))
    /\ UNCHANGED <<strategy, cacheVars, runVars, exchangeVars>>

SimNext == GenerateSignals \/ SmaRun \/ RsiRun \/ VwapRun \/ GetMetrics

SimSpec == SimInit /\ [][SimNext]_vars

\* ------------------------------------------------------------------------
\* DataLoader: the parquet cache (core/data_loader.py)
\* ------------------------------------------------------------------------
MaxRows == 2

\* trading pair symbols, as sequences of characters
Symbols == {<<"A", "/", "B">>, <<"A", "_", "B">>, <<"C", "/", "D">>}

\* str.replace(old, new) on a sequence of characters
Replace(str, old, new) ==
    SubSeq([i \in 1..Len(str) |-> IF str[i] = old THEN new ELSE str[i]], 1, Len(str))

\* os.path.join(self.cache_dir, f"{symbol.replace('/', '_')}.parquet")
FilePath(symbol) == Replace(symbol, "/", "_") \o <<".parquet">>

\* a timestamp in milliseconds, as pd.to_datetime(unit="ms") holds it
Millis(i) == 60000 * i

\* Series.dt.strftime("%Y-%m-%d %H:%M:%S") of a datetime column: strings
\* that spell the timestamp to the second
Strftime(frame) ==
    Frame("string",
          SubSeq([i \in 1..Len(frame.rows) |->
                     [frame.rows[i] EXCEPT !.timestamp = @ \div 1000]],
                 1, Len(frame.rows)))

\* the frames a caller holds before it calls the loader: what fetch_ohlcv
\* returns, pd.DataFrame() or bars with a datetime timestamp column
FetchedFrames ==
    {EmptyFrame} \cup
    {Frame("datetime", SubSeq([i \in 1..n |-> Bar(Millis(i), a + i, 1)], 1, n)) :
         a \in {105, 205}, n \in 1..MaxRows}

\* os.path.exists(file_path)
Exists(fs, path) == path \in DOMAIN fs

\* save_to_parquet(df, symbol) with the cache directory holding fs: the
\* directory and the caller's df afterwards.  A KeyError (no timestamp
\* column) or AttributeError (.dt on a column of strings) is caught and
\* logged, and nothing is written.
SaveToParquet(fs, df, symbol) ==
    IF Exists(fs, FilePath(symbol)) THEN [files |-> fs, df |-> df]
    ELSE IF ~df.cols THEN [files |-> fs, df |-> df]
    ELSE IF df.tskind # "datetime" THEN [files |-> fs, df |-> df]
    ELSE [files |-> (FilePath(symbol) :> Strftime(df)) @@ fs, df |-> Strftime(df)]

\* load_cached_data(symbol) with the cache directory holding fs
LoadCachedData(fs, symbol) ==
    IF Exists(fs, FilePath(symbol)) THEN fs[FilePath(symbol)] ELSE EmptyFrame

Slots == {1, 2}

CacheInit ==
    /\ files = <<>>
    /\ dfs \in [Slots -> FetchedFrames]
    /\ last = NoLoaderCall
    /\ first_save = <<>>
    /\ request = NoRequest
    /\ NoStrategy /\ NoBacktester

\* loader.save_to_parquet(dfs[i], symbol)
SaveCall ==
    \E i \in Slots, symbol \in Symbols :
        LET saved == SaveToParquet(files, dfs[i], symbol)
        IN  /\ files' = saved.files
            /\ dfs' = [dfs EXCEPT ![i] = saved.df]
            /\ last' = [op |-> "save", symbol |-> symbol, df |-> i,
                        existed |-> Exists(files, FilePath(symbol)),
                        result |-> EmptyFrame]
            /\ first_save' = first_save @@ (symbol :> saved.df)
            /\ UNCHANGED <<simVars, runVars, exchangeVars>>

\* dfs[i] = loader.load_cached_data(symbol)
LoadCall ==
    \E i \in Slots, symbol \in Symbols :
        /\ dfs' = [dfs EXCEPT ![i] = LoadCachedData(files, symbol)]
        /\ last' = [op |-> "load", symbol |-> symbol, df |-> i,
                    existed |-> Exists(files, FilePath(symbol)),
                    result |-> LoadCachedData(files, symbol)]
        /\ UNCHANGED <<files, first_save, simVars, runVars, exchangeVars>>

CacheNext == SaveCall \/ LoadCall

CacheSpec == CacheInit /\ [][CacheNext]_vars

\* ------------------------------------------------------------------------
\* DataLoader and the exchange (core/data_loader.py)
\* ------------------------------------------------------------------------
MaxTickers == 3
MaxVolume == 2
MaxLimit == 2

\* a ticker's quoteVolume: a number, or None where the exchange reports none
Volume(v) == [none |-> FALSE, v |-> v]
NoVolume == [none |-> TRUE, v |-> 0]
Volumes == {NoVolume} \cup {Volume(v) : v \in 1..MaxVolume}

\* symbols of two quote currencies, B and U, and one whose quote currency
\* only ends in B
TickerSymbols ==
    {<<"E", "/", "B">>, <<"L", "/", "B">>, <<"B", "/", "U">>, <<"E", "/", "U">>,
     <<"E", "/", "U", "B">>}
BaseCurrencies == {<<"B">>, <<"U">>}

\* limit: the number of pairs asked for
Limits == 0..MaxLimit

\* what fetch_tickers() can return: tickers of distinct symbols, in the
\* order of the dict
Markets ==
    UNION {{m \in [1..n -> [symbol : TickerSymbols, quoteVolume : Volumes]] :
                \A i, j \in 1..n : m[i].symbol = m[j].symbol => i = j} :
           n \in 0..MaxTickers}

\* s.endswith(suffix)
EndsWith(s, suffix) ==
    /\ Len(s) >= Len(suffix)
    /\ SubSeq(s, Len(s) - Len(suffix) + 1, Len(s)) = suffix

\* [market for market in markets.values()
\*  if market["symbol"].endswith(f"/{base_currency}")]
Filtered(markets, base_currency) ==
    SelectSeq(markets, LAMBDA market : EndsWith(market.symbol, <<"/">> \o base_currency))

\* x placed after the entries of the sorted list that are not above it
InsertedAscending(sorted, x) ==
    LET k == Cardinality({i \in 1..Len(sorted) :
                             sorted[i].quoteVolume.v <= x.quoteVolume.v})
    IN  SubSeq(sorted, 1, k) \o <<x>> \o SubSeq(sorted, k + 1, Len(sorted))

\* x placed after the entries of the sorted list that are not below it
Inserted(sorted, x) ==
    LET k == Cardinality({i \in 1..Len(sorted) :
                             sorted[i].quoteVolume.v >= x.quoteVolume.v})
    IN  SubSeq(sorted, 1, k) \o <<x>> \o SubSeq(sorted, k + 1, Len(sorted))

\* sorted(filtered, key=lambda x: x["quoteVolume"], reverse=True): a stable
\* sort, entries of equal volume keeping their order
RECURSIVE SortedMarkets(_)
SortedMarkets(filtered) ==
    IF filtered = <<>> THEN <<>>
    ELSE Inserted(SortedMarkets(SubSeq(filtered, 1, Len(filtered) - 1)),
                  filtered[Len(filtered)])

\* comparing None with a volume raises TypeError, and sorting two or more
\* entries compares every one of them
SortRaises(filtered) ==
    Len(filtered) >= 2 /\ \E i \in 1..Len(filtered) : filtered[i].quoteVolume.none

\* seq[:limit]
UpTo(seq, limit) ==
    IF limit >= 0 THEN SubSeq(seq, 1, IF limit < Len(seq) THEN limit ELSE Len(seq))
    ELSE SubSeq(seq, 1, Len(seq) + limit)

\* [m["symbol"] for m in sorted_markets[:limit]]
TopPairs(filtered, limit) ==
    LET top == UpTo(SortedMarkets(filtered), limit)
    IN  [i \in 1..Len(top) |-> top[i].symbol]

\* get_top_liquid_pairs, fetch_tickers() having returned `markets` or raised
GetTopLiquidPairs(fetched, markets, base_currency, limit) ==
    IF ~fetched \/ SortRaises(Filtered(markets, base_currency)) THEN <<>>
    ELSE TopPairs(Filtered(markets, base_currency), limit)

\* loader.get_top_liquid_pairs(base_currency, limit)
TopCall ==
    /\ request.op = "get_top_liquid_pairs" /\ ~request.returned
    /\ \E fetched \in BOOLEAN, markets \in Markets :
           request' = [request EXCEPT
                          !.returned = TRUE,
                          !.fetched = fetched,
                          !.markets = IF fetched THEN markets ELSE <<>>,
                          !.result = GetTopLiquidPairs(fetched, markets,
                                                       request.base_currency,
                                                       request.limit)]
    /\ UNCHANGED <<simVars, files, dfs, last, first_save, runVars>>

\* a loader on which get_top_liquid_pairs(base_currency, limit) is called
TopInit ==
    /\ NoStrategy /\ NoBacktester
    /\ files = <<>> /\ dfs = <<>> /\ last = NoLoaderCall /\ first_save = <<>>
    /\ \E base_currency \in BaseCurrencies, limit \in Limits :
           request = [op |-> "get_top_liquid_pairs", returned |-> FALSE,
                      base_currency |-> base_currency, limit |-> limit,
                      fetched |-> FALSE, markets |-> <<>>, result |-> <<>>]

TopNext == TopCall

TopSpec == TopInit /\ [][TopNext]_vars

\* fetch_ohlcv. Time is counted in ticks, DayTicks to a day: the first tick
\* of a day is 00:00:00, the last is 23:59:59. Dates are days 0..MaxDay.
DayTicks == 2
MaxDay == 1
PageLimit == 2
Days == 0..MaxDay

\* the timestamps the exchange may hold a bar at: the days a caller can ask
\* for, and the first tick of the day after
Ticks == 0..((MaxDay + 1) * DayTicks)

\* the pages a call is followed for: more than an exchange that honours
\* `since` can deliver
MaxPages == (MaxDay + 1) * DayTicks + 2

\* parse8601(f"{date}T00:00:00Z"), parse8601(f"{date}T23:59:59Z")
Midnight(date) == date * DayTicks
EndOfDay(date) == date * DayTicks + DayTicks - 1

\* the n smallest members of S, in order
RECURSIVE Smallest(_, _)
Smallest(S, n) ==
    IF n = 0 \/ S = {} THEN <<>>
    ELSE LET least == CHOOSE x \in S : \A y \in S : x <= y
         IN  <<least>> \o Smallest(S \ {least}, n - 1)

\* exchange.fetch_ohlcv(symbol, timeframe, since=since, limit=1000): the
\* first bars at or after `since` of an exchange that honours it, the first
\* bars it holds of one that does not
Page(exchange, since) ==
    Smallest({t \in exchange.bars : ~exchange.honours_since \/ t >= since},
             PageLimit)

\* data[(data["timestamp"] >= start_date) & (data["timestamp"] <= end_date)]:
\* a date compared with a timestamp is the midnight the date starts at
InDates(page, start_date, end_date) ==
    SelectSeq(page, LAMBDA t : t >= Midnight(start_date) /\ t <= Midnight(end_date))

\* the cursor left where the page ended
SameCursor(page) == page[Len(page)]

\* since = ohlcv[-1][0] + 1
NextCursor(page) == page[Len(page)] + 1

\* the frame of the bars at the ticks of `ticks`
Ohlcv(ticks) ==
    IF ticks = <<>> THEN EmptyFrame
    ELSE Frame("datetime", [i \in 1..Len(ticks) |-> Bar(ticks[i], 5000, 1)])

\* a loader on which fetch_ohlcv(symbol, start_date, end_date) is called,
\* and the exchange it talks to
FetchInit ==
    /\ NoStrategy /\ NoBacktester
    /\ files = <<>> /\ dfs = <<>> /\ last = NoLoaderCall /\ first_save = <<>>
    /\ \E start_date \in Days, end_date \in Days,
          bars \in SUBSET Ticks, honours_since \in BOOLEAN :
           request = [op |-> "fetch_ohlcv", pc |-> "parse",
                      start_date |-> start_date, end_date |-> end_date,
                      exchange |-> [bars |-> bars, honours_since |-> honours_since],
                      since |-> 0, end_ts |-> 0, all_data |-> <<>>,
                      delivered |-> <<>>, pages |-> 0, honoured |-> TRUE,
                      failed |-> FALSE, raised |-> "no", result |-> EmptyFrame]

\* lines 98-100, before the try: an exception of parse8601 is not caught
FetchParse ==
    /\ request.op = "fetch_ohlcv" /\ request.pc = "parse"
    /\ \E raises \in BOOLEAN :
           request' =
               IF raises
               THEN [request EXCEPT !.pc = "done", !.failed = TRUE,
                                    !.raised = "ExchangeError"]
               ELSE [request EXCEPT !.pc = "loop",
                                    !.since = Midnight(request.start_date),
                                    !.end_ts = EndOfDay(request.end_date)]
    /\ UNCHANGED <<simVars, files, dfs, last, first_save, runVars>>

\* one turn of the loop, the exchange having returned `page`
FetchedPage(page) ==
    IF page = <<>> THEN [request EXCEPT !.pc = "concat"]
    ELSE [request EXCEPT
             !.all_data = @ \o InDates(page, request.start_date, request.end_date),
             !.since = NextCursor(page),
             !.delivered = @ \o page,
             !.pages = @ + 1,
             !.honoured = @ /\ page[Len(page)] >= request.since]

\* lines 103-137: one turn of the loop; an exception of the exchange is
\* caught at 152-154 and an empty frame returned
FetchPage ==
    /\ request.op = "fetch_ohlcv" /\ request.pc = "loop"
    /\ request.since < request.end_ts
    /\ request.pages < MaxPages
    /\ \E raises \in BOOLEAN :
           request' =
               IF raises
               THEN [request EXCEPT !.pc = "done", !.failed = TRUE,
                                    !.result = EmptyFrame]
               ELSE FetchedPage(Page(request.exchange, request.since))
    /\ UNCHANGED <<simVars, files, dfs, last, first_save, runVars>>

\* lines 139-150, after the loop
FetchReturn ==
    /\ request.op = "fetch_ohlcv"
    /\ \/ request.pc = "concat"
       \/ request.pc = "loop" /\ request.since >= request.end_ts
    /\ request' = [request EXCEPT !.pc = "done", !.result = Ohlcv(request.all_data)]
    /\ UNCHANGED <<simVars, files, dfs, last, first_save, runVars>>

FetchNext == FetchParse \/ FetchPage \/ FetchReturn

FetchSpec == FetchInit /\ [][FetchNext]_vars

\* the call runs on: nothing but the call itself holds a step of it back
FetchLive == FetchSpec /\ WF_vars(FetchNext)

\* ------------------------------------------------------------------------
\* Backtester (core/backtester.py)
\* ------------------------------------------------------------------------
MaxRuns == 2

\* the friction arguments of Backtester.run
FrictionKeys == {"transaction_cost", "slippage_percent", "execution_lag"}
RunCosts == {Q(1, 1000), Q(1, 10000)}
RunSlippages == {Q(1, 2000)}
RunLags == {1}

\* the pair in the cache and a pair that is not
CachedPair == <<"A", "/", "B">>
Pairs == {CachedPair, <<"C", "/", "D">>}

\* the **strategy_params a caller passes for each class
RunParams ==
    Params \cup
    {[cls |-> "SmaCrossoverStrategy", short_window |-> 1, long_window |-> 3],
     [cls |-> "RsiBollingerStrategy", rsi_period |-> 3, bb_period |-> 6],
     [cls |-> "VWAPReversionStrategy", threshold |-> Q(1, 20)]}

StrategyParams(p) == [k \in DOMAIN p \ {"cls"} |-> p[k]]

\* the cached bar series: two bars after the window of the class has filled
RunFrames(cls) ==
    UNION {{f \in Series(Window(p) - 1) :
                Len(f.rows) = Window(p) + 1 /\ f.rows[1].close = 5000} :
           p \in {q \in Params : q.cls = cls}}

\* the arguments run_backtest() takes when called with none
RunBacktestDefaults(cls) ==
    IF cls = "SmaCrossoverStrategy" THEN [initial_balance |-> SmaInitialBalance]
    ELSE IF cls = "RsiBollingerStrategy"
    THEN [initial_balance |-> RsiInitialBalance,
          transaction_cost |-> RsiTransactionCost,
          slippage_percent |-> RsiSlippagePercent,
          execution_lag |-> RsiExecutionLag]
    ELSE [initial_balance |-> VwapInitialBalance,
          transaction_cost |-> VwapTransactionCost]

\* strategy.run_backtest() after generate_signals() gave g
RunBacktestOn(cls, g) ==
    IF cls = "SmaCrossoverStrategy" THEN SmaBacktestOn(g, SmaInitialBalance)
    ELSE IF cls = "RsiBollingerStrategy"
    THEN RsiBacktestOn(g, RsiInitialBalance, RsiTransactionCost,
                       RsiSlippagePercent, RsiExecutionLag)
    ELSE VwapBacktestOn(g, VwapInitialBalance, VwapTransactionCost)

\* f"{cls}_{strategy_params}.png" under screenshots/, and f"{cls}_results.csv"
ChartFile(cls, p) == <<"screenshots", cls, StrategyParams(p), ".png">>
ResultsFile(cls) == <<cls, "_results.csv">>
MetricsFile == <<"metrics.csv">>

\* the record calculate_metrics appends: the strategy's metrics, then the
\* frictions of the call, the class name and the strategy parameters, a
\* later key replacing an earlier one of the same name
MetricsRecord(cls, p, metrics, frictions) ==
    StrategyParams(p) @@ [strategy |-> cls] @@ frictions @@ metrics

RunInit ==
    /\ strategy_class \in {p.cls : p \in Params}
    /\ \E f \in RunFrames(strategy_class) : files = (FilePath(CachedPair) :> f)
    /\ results = <<>> /\ artifacts = <<>> /\ run = NoRun /\ ran_with = <<>>
    /\ dfs = <<>> /\ last = NoLoaderCall /\ first_save = <<>>
    /\ request = NoRequest
    /\ NoStrategy

\* the file writes of a run, in the order run makes them: metrics.csv in
\* calculate_metrics, the chart in _save_equity_curve, the dump in
\* _save_results; each may fail as a write to a disk may
Writes == <<"metrics.csv", "chart", "results.csv">>
WriteFailures == {"none"} \cup {Writes[i] : i \in 1..Len(Writes)}

\* TRUE when the write `w` is reached and succeeds in a run failing at `fails`
Written(w, fails) ==
    \A i, j \in 1..Len(Writes) : (Writes[i] = w /\ Writes[j] = fails) => i < j

\* a table of one record only, whatever the table was
KeepLatestRecord(table, record) == <<record>>

\* self.results.append(metrics)
AppendRecord(table, record) == Append(table, record)

\* the files of the output directory after the writes of a run failing at
\* `fails`
FilesWritten(fails, table, p, backtest, before) ==
    (IF Written("metrics.csv", fails) THEN (MetricsFile :> table) ELSE <<>>)
    @@ (IF Written("chart", fails)
        THEN (ChartFile(strategy_class, p) :> backtest.data.balance) ELSE <<>>)
    @@ (IF Written("results.csv", fails)
        THEN (ResultsFile(strategy_class) :> backtest.data) ELSE <<>>)
    @@ before

\* lines 66-75 of run, backtest and metrics being what strategy.run_backtest()
\* and strategy.get_metrics() gave
RunWith(pair, p, frictions, backtest, metrics) ==
        LET args == frictions @@ StrategyParams(p)
        IN  IF backtest.raised # "no"
            THEN /\ run' = [pair |-> pair, args |-> args, raised |-> backtest.raised]
                 /\ UNCHANGED <<results, artifacts, ran_with>>
            ELSE IF metrics.raised # "no"
            THEN /\ run' = [pair |-> pair, args |-> args, raised |-> metrics.raised]
                 /\ UNCHANGED <<results, artifacts, ran_with>>
            ELSE \E fails \in WriteFailures :
                 /\ run' = [pair |-> pair, args |-> args,
                            raised |-> IF fails = "none" THEN "no" ELSE "OSError"]
                 /\ results' = AppendRecord(results,
                                            MetricsRecord(strategy_class, p,
                                                          metrics.data, frictions))
                 /\ artifacts' = FilesWritten(fails, results', p, backtest, artifacts)
                 /\ ran_with' = Append(ran_with, RunBacktestDefaults(strategy_class))

\* run called with any of the frictions tried
RunGave(pair, p, backtest, metrics) ==
    \E tc \in RunCosts, sp \in RunSlippages, lag \in RunLags :
        RunWith(pair, p,
                [transaction_cost |-> tc, slippage_percent |-> sp,
                 execution_lag |-> lag],
                backtest, metrics)

\* what strategy.run_backtest() and strategy.get_metrics() give after
\* generate_signals() gave g
RunOutcomeOn(p, g) ==
    [backtest |-> RunBacktestOn(p.cls, g), metrics |-> MetricsOn(p, g)]

\* lines 65-67 of run for every strategy and every bar series the cache can
\* hand it, computed once
RunOutcomesOf(p) ==
    {[p |-> p, price_data |-> f,
      outcome |-> RunOutcomeOn(p, GenerateSignalsOf(p @@ [price_data |-> f]))] :
         f \in {EmptyFrame} \cup RunFrames(p.cls)}

RunOutcomes == UNION {RunOutcomesOf(p) : p \in RunParams}

RunOutcome(p, f) ==
    (CHOOSE r \in RunOutcomes : r.p = p /\ r.price_data = f).outcome

RunOn(pair, p, outcome) == RunGave(pair, p, outcome.backtest, outcome.metrics)

\* backtester.run(pair, transaction_cost, slippage_percent, execution_lag,
\* **strategy_params)
Run ==
    /\ Len(results) < MaxRuns
    /\ \E pair \in Pairs : \E p \in {q \in RunParams : q.cls = strategy_class} :
           RunOn(pair, p, RunOutcome(p, LoadCachedData(files, pair)))
    /\ UNCHANGED <<strategy_class, simVars, cacheVars, exchangeVars>>

RunNext == Run

RunSpec == RunInit /\ [][RunNext]_vars

\* ------------------------------------------------------------------------
\* The batch driver (main.py)
\* ------------------------------------------------------------------------
MaxBars == 2

\* a bar that traded, a bar of no volume, and a bar whose open, high, low
\* and close are one price
TradedBar(ts) == Bar(ts, 5000, 1)
IdleBar(ts) == Bar(ts, 5000, 0)
DegenerateBar(ts) == [Bar(ts, 5000, 1) EXCEPT !.high = 5000]

\* the bar series the cache may hold for the cached pair
MainFrames ==
    UNION {{Frame("string", [i \in 1..n |-> kinds[i][i]]) :
                kinds \in [1..n -> {[ts \in 1..n |-> TradedBar(ts)],
                                    [ts \in 1..n |-> IdleBar(ts)],
                                    [ts \in 1..n |-> DegenerateBar(ts)]}]} :
           n \in 1..MaxBars}

\* the strategies list of main, in its order
MainStrategies ==
    <<[cls |-> "SmaCrossoverStrategy", short_window |-> 10, long_window |-> 50],
      [cls |-> "RsiBollingerStrategy", rsi_period |-> 14, bb_period |-> 20],
      [cls |-> "VWAPReversionStrategy", threshold |-> Q(1, 50)]>>

\* the frictions run takes when the caller passes none
DefaultFrictions ==
    [transaction_cost |-> Q(1, 1000), slippage_percent |-> Q(1, 2000),
     execution_lag |-> 1]

\* cached_data[cached_data["volume"] > 0]
Traded(frame) ==
    IF ~frame.cols THEN frame
    ELSE [frame EXCEPT !.rows = SelectSeq(frame.rows, LAMBDA bar : bar.volume > 0)]

\* cached_data[~((open == high) & (high == low) & (low == close))]
Ranging(frame) ==
    IF ~frame.cols THEN frame
    ELSE [frame EXCEPT !.rows =
              SelectSeq(frame.rows,
                        LAMBDA bar : ~(/\ bar.open = bar.high
                                       /\ bar.high = bar.low
                                       /\ bar.low = bar.close))]

\* the strategies of main.py run so far for the pair in hand
StrategiesRun ==
    IF strategy_class = "none" THEN 0
    ELSE CHOOSE i \in 1..Len(MainStrategies) : MainStrategies[i].cls = strategy_class

\* TRUE when the driver is between two backtests
Idle == strategy_class = "none" \/ run # NoRun

\* cached_data of the driver
CachedData == IF dfs = <<>> THEN EmptyFrame ELSE dfs[1]

\* TRUE when the strategy loop of the pair in hand is over, or was skipped
PairDone ==
    IF CachedData.rows = <<>> THEN TRUE ELSE StrategiesRun = Len(MainStrategies)

MainInit ==
    /\ NoStrategy /\ NoBacktester
    /\ files \in {<<>>} \cup {(FilePath(CachedPair) :> f) : f \in MainFrames}
    /\ dfs = <<>> /\ last = NoLoaderCall /\ first_save = <<>>
    /\ request = NoRequest

\* lines 34-54: the next pair is loaded and cleaned; no strategy has run
\* for it
MainLoad ==
    /\ Idle /\ PairDone
    /\ \E pair \in Pairs :
           /\ last' = [op |-> "load", symbol |-> pair, df |-> 1,
                       existed |-> Exists(files, FilePath(pair)),
                       result |-> LoadCachedData(files, pair)]
           /\ dfs' = <<Ranging(Traded(LoadCachedData(files, pair)))>>
    /\ strategy' = [cls |-> "none"] /\ call' = NoCall
    /\ strategy_class' = "none" /\ results' = <<>> /\ artifacts' = <<>>
    /\ run' = NoRun /\ ran_with' = <<>>
    /\ UNCHANGED <<files, first_save, exchangeVars>>

\* lines 76-84: the Backtester of the next strategy of the list, on an
\* output directory of its own
MainBacktester ==
    /\ Idle /\ ~PairDone
    /\ strategy_class' = MainStrategies[StrategiesRun + 1].cls
    /\ results' = <<>> /\ artifacts' = <<>> /\ run' = NoRun /\ ran_with' = <<>>
    /\ UNCHANGED <<simVars, cacheVars, exchangeVars>>

\* the strategy object run builds at backtester.py:63-65 and the rest of run
MainRunOn(pair, st) ==
    /\ strategy' = st
    /\ RunWith(pair, MainStrategies[StrategiesRun], DefaultFrictions,
               RunBacktestOn(strategy_class, GenerateSignalsOf(st)),
               MetricsOn(st, GenerateSignalsOf(st)))

\* lines 86-95: backtester.run(pair=pair, **strategy["params"]); what it
\* raises is logged
MainRun ==
    /\ ~Idle
    /\ MainRunOn(last.symbol,
                 MainStrategies[StrategiesRun]
                     @@ [price_data |-> LoadCachedData(files, last.symbol)])
    /\ UNCHANGED <<strategy_class, call, cacheVars, exchangeVars>>

MainNext == MainLoad \/ MainBacktester \/ MainRun

MainSpec == MainInit /\ [][MainNext]_vars

\* ------------------------------------------------------------------------
\* Properties of the simulators, under SimSpec
\* ------------------------------------------------------------------------
Bars == Len(strategy.price_data.rows)
RanBacktest == call.op = "run_backtest"
GotMetrics == call.op = "get_metrics"
Completed == call.result.raised = "no"

\* the backtest get_metrics ran: run_backtest() with its defaults
DefaultBacktest == RunBacktestOn(strategy.cls, call.signals)

\* the backtest of the call at hand, had its transaction_cost been c
BacktestAtCost(c) ==
    IF IsRsi
    THEN RsiBacktestOn(call.signals, call.args.initial_balance, c,
                       call.args.slippage_percent, call.args.execution_lag)
    ELSE VwapBacktestOn(call.signals, call.args.initial_balance, c)

FinalOf(b) == b.data.balance[Len(b.data.balance)]

\* backtest b took the path of no signals: balance held, no return column
Flat(b) == "return_with_slippage" \notin DOMAIN b.data

\* the returns compounded into the balance of backtest b: none on the flat
\* path of RsiBollingerStrategy
CompoundedReturns(b) ==
    IF ~IsRsi THEN b.data.strategy_return
    ELSE IF Flat(b) THEN [t \in 1..Len(b.data.balance) |-> Zero]
    ELSE FillNa(b.data.return_with_slippage, Zero)

\* C1: on a non-empty bar series run_backtest of every variant returns a
\* balance with one entry per bar, whose first entry is initial_balance and
\* no NaN.
C1_BalanceStartsAtInitialBalance ==
    (RanBacktest /\ Bars > 0) =>
        /\ Completed
        /\ Len(call.result.data.balance) = Bars
        /\ QEq(call.result.data.balance[1], call.args.initial_balance)

\* the signal in effect at bar t under execution lag l: that of bar t - l
EffectiveSignal(t, l) ==
    IF t - l >= 1 THEN call.signals.data.signal[t - l] ELSE Zero

\* C3: on the non-flat path of RsiBollingerStrategy.run_backtest, for every
\* lag and every bar t, the return compounded into the balance at t is the
\* return of the cost-free run less transaction_cost exactly when the signal
\* of bar t - lag is non-zero, and the cost-free return itself at every
\* other bar.
C3_CostChargedAtLaggedSignal ==
    (RanBacktest /\ IsRsi /\ Completed /\ ~Flat(call.result)) =>
        LET a    == call.args
            r    == CompoundedReturns(call.result)
            free == CompoundedReturns(BacktestAtCost(Zero))
            b    == call.result.data.balance
        IN  \A t \in 1..Bars :
                /\ Same(r[t], IF QNe(EffectiveSignal(t, a.execution_lag), Zero)
                              THEN QSub(free[t], a.transaction_cost)
                              ELSE free[t])
                /\ Same(b[t], QMul(IF t = 1 THEN a.initial_balance ELSE b[t - 1],
                                   QAdd(One, r[t])))

\* a run with a lag of at least one bar over signals with a single non-zero
\* entry, at bar k: the cost is charged at bar k + lag and at no other bar
C3_SingleSignalChargedOnce ==
    /\ RanBacktest /\ IsRsi /\ Completed /\ ~Flat(call.result)
    /\ call.args.execution_lag >= 1
    /\ QGt(call.args.transaction_cost, Zero)
    /\ LET a    == call.args
           s    == call.signals.data.signal
           r    == CompoundedReturns(call.result)
           free == CompoundedReturns(BacktestAtCost(Zero))
       IN  \E k \in 1..Bars :
               /\ QNe(s[k], Zero)
               /\ \A j \in 1..Bars : j # k => QEq(s[j], Zero)
               /\ k + a.execution_lag <= Bars
               /\ \A t \in 1..Bars :
                      IF t = k + a.execution_lag
                      THEN QEq(r[t], QSub(free[t], a.transaction_cost))
                      ELSE QEq(r[t], free[t])

HasNonZeroSignal ==
    \E i \in 1..Bars : LET x == call.signals.data.signal[i]
                       IN  ~IsNaN(x) /\ QNe(x, Zero)

\* no return compounded into the balance of b is below -100%
NoReturnBelowMinusOne(b) ==
    \A t \in 1..Bars : LET x == CompoundedReturns(b)[t]
                       IN  IsNaN(x) \/ QLe(Q(-1, 1), x)

\* C4 as amended: for fixed bars and signals with a non-zero entry and costs
\* c1 <= c2, the final balance of RsiBollingerStrategy.run_backtest and of
\* VWAPReversionStrategy.run_backtest at cost c2 is not greater than at cost
\* c1, provided no per-bar return of the run at c2 is below -100%.
C4_CostMonotoneAboveMinusOne ==
    (RanBacktest /\ ~IsSma /\ Completed /\ HasNonZeroSignal
        /\ NoReturnBelowMinusOne(call.result)) =>
        \A c1 \in Costs :
            QLe(c1, call.args.transaction_cost) =>
                ~QGt(FinalOf(call.result), FinalOf(BacktestAtCost(c1)))

\* a run at the larger of two costs, no return below -100%, that ends
\* strictly below the run at the smaller cost
C4_HigherCostLowerBalance ==
    /\ RanBacktest /\ ~IsSma /\ Completed /\ HasNonZeroSignal
    /\ NoReturnBelowMinusOne(call.result)
    /\ \E c1 \in Costs :
           /\ QLt(c1, call.args.transaction_cost)
           /\ QLt(FinalOf(call.result), FinalOf(BacktestAtCost(c1)))

\* C4 as stated: the same with no condition on the returns, returns below
\* -100% included.
C4_CostMonotone ==
    (RanBacktest /\ ~IsSma /\ Completed /\ HasNonZeroSignal) =>
        \A c1 \in Costs :
            QLe(c1, call.args.transaction_cost) =>
                ~QGt(FinalOf(call.result), FinalOf(BacktestAtCost(c1)))

NeverDecreases(b) == \A i \in 2..Len(b) : ~QLt(b[i], b[i - 1])

\* C5: the max_drawdown VWAPReversionStrategy.get_metrics reports is <= 0,
\* and is 0 exactly when the balance never decreases from a bar to the next.
C5_MaxDrawdownNonPositive ==
    (GotMetrics /\ IsVwap /\ Completed) =>
        LET m == call.result.data.max_drawdown
        IN  /\ QLe(m, Zero)
            /\ QEq(m, Zero) <=> NeverDecreases(DefaultBacktest.data.balance)

\* C6: generate_signals, run_backtest and get_metrics of every variant
\* complete without raising on every bar series, the empty one included.
C6_NeverRaises == call.op # "none" => Completed

\* C7: RsiBollingerStrategy.get_metrics reports total_return =
\* final_balance / initial_balance - 1 whenever initial_balance is not 0, a
\* final balance of exactly 0 included.
C7_RsiTotalReturn ==
    (GotMetrics /\ IsRsi /\ Completed) =>
        LET b == DefaultBacktest.data.balance
        IN  QNe(b[1], Zero) =>
                QEq(call.result.data.total_return,
                    QSub(QDiv(b[Len(b)], b[1]), One))

\* C8: on a non-empty bar series SmaCrossoverStrategy.get_metrics reports
\* total_return = final_balance - initial_balance and
\* VWAPReversionStrategy.get_metrics reports total_return = final_balance /
\* initial_balance - 1, initial_balance being the seed of the run; each is a
\* number whenever final_balance is.
C8_TotalReturnOfSeed ==
    (GotMetrics /\ ~IsRsi /\ Completed /\ Bars > 0) =>
        LET m == call.result.data
        IN  ~IsNaN(m.final_balance) =>
                QEq(m.total_return,
                    IF IsSma THEN QSub(m.final_balance, SmaInitialBalance)
                    ELSE QSub(QDiv(m.final_balance, VwapInitialBalance), One))

\* the price the claim of C16 fills at bar t: close[t] * (1 + slippage * e[t])
FillPrice(t) ==
    QMul(call.signals.data.close[t],
         QAdd(One, QMul(call.args.slippage_percent,
                        EffectiveSignal(t, call.args.execution_lag))))

\* e[t-1] * (p[t] / p[t-1] - 1), and 0 at the first bar
ReturnOfPriorPosition(t) ==
    IF t = 1 THEN Zero
    ELSE QMul(EffectiveSignal(t - 1, call.args.execution_lag),
              QSub(QDiv(FillPrice(t), FillPrice(t - 1)), One))

\* C16: on the non-flat path of RsiBollingerStrategy.run_backtest the return
\* compounded into the balance before costs is e[t-1] * (p[t] / p[t-1] - 1)
\* at every bar after the first, e[t] being the signal of bar t - lag (0
\* before bar lag) and p[t] = close[t] * (1 + slippage_percent * e[t]), and
\* balance[t] = balance[t-1] * (1 + return[t]), an undefined return counting
\* as 0.
C16_ReturnOfPriorPosition ==
    (RanBacktest /\ IsRsi /\ Completed /\ ~Flat(call.result)) =>
        LET free == CompoundedReturns(BacktestAtCost(Zero))
            r    == CompoundedReturns(call.result)
            b    == call.result.data.balance
        IN  \A t \in 2..Bars :
                /\ QEq(free[t], ReturnOfPriorPosition(t))
                /\ QEq(b[t], QMul(b[t - 1], QAdd(One, r[t])))

\* a run with a lag and a slippage whose return before costs is not zero
\* at some bar
C16_PositionEarnsReturn ==
    /\ RanBacktest /\ IsRsi /\ Completed /\ ~Flat(call.result)
    /\ call.args.execution_lag >= 1
    /\ \E t \in 2..Bars :
           /\ QNe(ReturnOfPriorPosition(t), Zero)
           /\ QEq(CompoundedReturns(BacktestAtCost(Zero))[t], ReturnOfPriorPosition(t))

\* C17: RsiBollingerStrategy.run_backtest takes the flat path only when
\* every entry of the generated signal series is 0.
C17_FlatOnlyWithoutSignals ==
    (RanBacktest /\ IsRsi /\ Completed /\ Flat(call.result)) =>
        \A t \in 1..Bars : QEq(call.signals.data.signal[t], Zero)

\* ------------------------------------------------------------------------
\* Properties of the Backtester, under RunSpec
\* ------------------------------------------------------------------------
\* C2: for every record in the results table, each friction value written
\* into it is the value of the argument of that name the strategy's
\* run_backtest ran with when it produced the record's final_balance.
C2_RecordedFrictionsAreSimulated ==
    \A i \in 1..Len(results) :
        \A k \in FrictionKeys \cap DOMAIN ran_with[i] :
            results[i][k] = ran_with[i][k]

\* the **strategy_params of the last call of run
ParamsOfRun == [k \in DOMAIN run.args \ FrictionKeys |-> run.args[k]]

\* TRUE when the record was made by a run with strategy parameters p
RecordOfParams(record, p) == \A k \in DOMAIN p : record[k] = p[k]

\* the files of the output directory other than metrics.csv
PerRunFiles == DOMAIN artifacts \ {MetricsFile}

\* C13: a run whose strategy parameters differ from those of every earlier
\* run on the same Backtester writes its chart and its result dump under
\* names no earlier run wrote, and leaves every chart and dump of the
\* earlier runs as it was.
C13_PerRunArtifactsKept ==
    [][(run'.raised = "no"
          /\ \A i \in 1..Len(results) : ~RecordOfParams(results[i], ParamsOfRun'))
       => /\ \A f \in PerRunFiles : f \in PerRunFiles' /\ artifacts'[f] = artifacts[f]
          /\ Cardinality(PerRunFiles') = Cardinality(PerRunFiles) + 2]_vars

\* C14: a call of Backtester.run that raises leaves the results table and
\* every file of the output directory as they were before the call.
C14_FailedRunLeavesNothing ==
    [][run'.raised # "no" => (results' = results /\ artifacts' = artifacts)]_vars

\* C15: the results table starts empty; every successful call of
\* Backtester.run appends exactly one record after the records already in
\* the table, which stay as they were, and leaves metrics.csv holding the
\* table as it is after the append.
C15_ResultsAppendOnly ==
    [][run'.raised = "no" =>
          /\ Len(results') = Len(results) + 1
          /\ SubSeq(results', 1, Len(results)) = results
          /\ results'[Len(results')].strategy = strategy_class
          /\ RecordOfParams(results'[Len(results')], ParamsOfRun')
          /\ artifacts'[MetricsFile] = results']_vars

\* two runs have succeeded, of different parameters, and metrics.csv holds
\* both records in the order of the calls
C15_TwoRunsRecorded ==
    /\ Len(results) = 2 /\ run.raised = "no"
    /\ results[1] # results[2]
    /\ RecordOfParams(results[2], ParamsOfRun)
    /\ MetricsFile \in DOMAIN artifacts /\ artifacts[MetricsFile] = results
    /\ Cardinality(PerRunFiles) = 3

\* ------------------------------------------------------------------------
\* Properties of the DataLoader's calls on the exchange
\* ------------------------------------------------------------------------
GotTopPairs == request.op = "get_top_liquid_pairs" /\ request.returned

\* the tickers of the request whose symbol ends in "/" + base_currency
Matching ==
    {i \in 1..Len(request.markets) :
         EndsWith(request.markets[i].symbol, <<"/">> \o request.base_currency)}

\* the ticker of a returned symbol
TickerOf(symbol) ==
    CHOOSE i \in 1..Len(request.markets) : request.markets[i].symbol = symbol

\* every property C12 states but the count
TopPairsChosen ==
    LET top == request.result
    IN  /\ \A k \in 1..Len(top) :
               /\ \E i \in Matching : request.markets[i].symbol = top[k]
               /\ \A j \in 1..Len(top) : top[j] = top[k] => j = k
        /\ \A j, k \in 1..Len(top) :
               j < k => request.markets[TickerOf(top[j])].quoteVolume.v
                            >= request.markets[TickerOf(top[k])].quoteVolume.v
        /\ \A i \in Matching, k \in 1..Len(top) :
               (\A j \in 1..Len(top) : top[j] # request.markets[i].symbol)
                   => request.markets[i].quoteVolume.v
                          <= request.markets[TickerOf(top[k])].quoteVolume.v
        /\ ~request.fetched => top = <<>>

\* C12: get_top_liquid_pairs(base_currency, limit) returns at most limit
\* symbols, each of a ticker whose symbol ends in "/" + base_currency, in
\* order of non-increasing quoteVolume, no matching symbol left out having
\* a higher quoteVolume than one returned, and the empty list if fetching
\* the tickers fails.
C12_TopPairs ==
    GotTopPairs => (Len(request.result) <= request.limit /\ TopPairsChosen)

\* a call that returned exactly limit symbols and left a matching one out
C12_LimitCutsMatching ==
    /\ GotTopPairs /\ request.limit >= 1
    /\ Len(request.result) = request.limit
    /\ Cardinality(Matching) > request.limit
    /\ TopPairsChosen

Fetched == request.op = "fetch_ohlcv" /\ request.pc = "done"

\* C11: fetch_ohlcv never raises to its caller, and returns an empty bar
\* series when the exchange returned no bars or raised at any step of the
\* call.
C11_FetchNeverRaises ==
    Fetched =>
        /\ request.raised = "no"
        /\ (request.failed \/ request.delivered = <<>>) => request.result = EmptyFrame

\* a page was delivered, and ended at or after the cursor it was asked from
PageHonoured ==
    /\ request.pc = "loop" /\ request'.pc = "loop"
    /\ request'.pages = request.pages + 1
    /\ request'.honoured

\* C19: while every page the exchange delivers ends at or after the cursor
\* it was asked from, the cursor of fetch_ohlcv grows with every page, and
\* the call ends.
C19_FetchTerminates ==
    /\ [][PageHonoured => request'.since > request.since]_vars
    /\ <>(Fetched \/ ~request.honoured)

\* a call that ended after two pages or more, each ending at or after its
\* cursor
C19_EndedAfterPages ==
    Fetched /\ request.honoured /\ request.pages >= 2 /\ ~request.failed

\* C20: fetch_ohlcv returns the bars the exchange delivered whose timestamp
\* lies from start_date 00:00:00 through end_date 23:59:59, and no other.
C20_FetchedBarsOfRange ==
    (Fetched /\ ~request.failed) =>
        request.result =
            Ohlcv(SelectSeq(request.delivered,
                            LAMBDA t : /\ t >= Midnight(request.start_date)
                                       /\ t <= EndOfDay(request.end_date)))

\* ------------------------------------------------------------------------
\* Properties of the batch driver, under MainSpec
\* ------------------------------------------------------------------------
\* C18: the bar series a strategy is simulated on in the batch driver holds
\* no bar of volume <= 0 and no bar whose open, high, low and close are
\* equal.
C18_SimulatedOnCleanedSeries ==
    (strategy_class # "none" /\ run # NoRun) =>
        \A i \in 1..Len(strategy.price_data.rows) :
            LET bar == strategy.price_data.rows[i]
            IN  /\ bar.volume > 0
                /\ ~(bar.open = bar.high /\ bar.high = bar.low /\ bar.low = bar.close)

\* ------------------------------------------------------------------------
\* Properties of the cache, under CacheSpec
\* ------------------------------------------------------------------------
\* C9: after any sequence of save_to_parquet calls, for every symbol saved
\* so far the cache entry of the symbol holds the series of the first save
\* for that symbol.
C9_FirstWriteWins ==
    \A symbol \in DOMAIN first_save :
        LoadCachedData(files, symbol) = first_save[symbol]

\* C10: after save_to_parquet(df, symbol) for a symbol that had no cache
\* entry, load_cached_data(symbol) returns a bar series equal to df.
C10_SaveLoadRoundTrip ==
    (last.op = "save" /\ ~last.existed) =>
        LoadCachedData(files, last.symbol) = dfs[last.df]
====
